---- MODULE Spec2Model ----
(***************************************************************************)
(* Growing single-producer / multi-consumer queue (SPMC_Queue) of          *)
(* src/_test_log.h, lines 61-449.                                          *)
(*                                                                         *)
(* One producer thread runs push_st and reserve; consumer threads run      *)
(* pop_st, pop_weak, pop, capacity, count, count_upper and count_lower.    *)
(* Every access to a location another thread may access (an atomic load,   *)
(* store or compare-exchange, the memcpy of one slot) is one step of the   *)
(* calling thread, and steps of different threads interleave freely.  What *)
(* a thread computes on its own fields and locals between two such         *)
(* accesses belongs to the step of the access before it.  Atomic accesses  *)
(* are taken in one total order (the interleaving) and in program order,   *)
(* whatever memory_order they name: the executions of a build that keeps   *)
(* loads in order, the x86 the comment of lines 322-328 names.  SpecRelaxed *)
(* adds what the memory_order arguments allow besides: reads of the block  *)
(* and of the slot that are not ordered after the relaxed loads of the     *)
(* head.  The claims about ordering are settled there.                     *)
(*                                                                         *)
(* spmc_queue_deinit frees the blocks and zeroes the queue; it is called   *)
(* when no thread is inside a call, as is spmc_queue_init on a used queue  *)
(* (SpecTeardown, SpecLifecycle).  SpecWrap starts the queue two pushes    *)
(* short of the wrap of its counters.  SpecPopFair and SpecCountFair add   *)
(* weak fairness for a thread that is inside a call of pop or count.       *)
(*                                                                         *)
(* Scaling: head and tail are CounterBits wide (64 in the source) and the  *)
(* smallest block has 2^MinCapLog2 slots (64 in the source).  Items are    *)
(* opaque values of item_size bytes, item_size itself is not modelled, and *)
(* every pop is handed a buffer (item != NULL).                            *)
(***************************************************************************)
EXTENDS Integers, Naturals, Sequences, FiniteSets, TLC

\* ------------------------------------------------------------------ bounds
CounterBits  == 5      \* width of the head / tail counters
MinCapLog2   == 1      \* log2 of the capacity of the smallest block
MaxPush      == 3      \* successful push_st calls per run
NumConsumers == 2      \* consumer threads
MaxReserve   == 3      \* largest to_size passed to spmc_queue_reserve
MaxCeiling   == 3      \* largest max_capacity passed to spmc_queue_init

VARIABLES
    blocks,     \* the heap: every SPMC_Queue_Block allocated since init
    pop,        \* SPMC_Queue.pop  : block, tail, estimate_head
    push,       \* SPMC_Queue.push : block, estimate_tail, head, max_capacity
    prod,       \* the producer thread: position and locals of push_st / reserve
    cons,       \* the consumer threads: position and locals of pop / queries
    pushed,     \* history: items of the push_st calls that returned OK, in order
    popped,     \* history: the pops that returned OK, in order of their tail advance
    empty_seen, \* history: per consumer, whether head = tail held at some instant of its call
    counts_seen \* history: per consumer, the values head - tail had during its count call

vars == <<blocks, pop, push, prod, cons, pushed, popped, empty_seen, counts_seen>>

\* ------------------------------------------------------- types and helpers
NULL      == 0                      \* the null block pointer
Consumers == 1..NumConsumers
Modulus   == 2^CounterBits
MinCap    == 2^MinCapLog2
Garbage   == 0 - 1                  \* content of a slot malloc returned and nobody wrote
NoItem    == 0 - 2                  \* content of a caller's buffer nobody wrote

SPMC_QUEUE_OK          == "OK"
SPMC_QUEUE_EMPTY       == "EMPTY"
SPMC_QUEUE_FULL        == "FULL"
SPMC_QUEUE_FAILED_RACE == "FAILED_RACE"

\* uint64_t arithmetic: values are kept modulo 2^CounterBits
U64(x) == x % Modulus

\* (int64_t) x : the two's complement reading of a counter value
I64(x) == IF U64(x) >= Modulus \div 2 THEN U64(x) - Modulus ELSE U64(x)

RECURSIVE BitAnd(_, _)
BitAnd(a, b) ==
    IF a = 0 \/ b = 0 THEN 0
    ELSE (IF a % 2 = 1 /\ b % 2 = 1 THEN 1 ELSE 0) + 2 * BitAnd(a \div 2, b \div 2)

\* _spmc_queue_slot: the index of the slot of logical position i in a block
SlotIndex(mask, i) == BitAnd(U64(i), mask)

_spmc_queue_slot(block, i) == SlotIndex(blocks[block].mask, i)

\* the while loop of _spmc_queue_reserve: double from the minimum up to to_size
RECURSIVE GrowCap(_, _)
GrowCap(new_cap, to_size) ==
    IF new_cap < to_size THEN GrowCap(new_cap * 2, to_size) ELSE new_cap

\* mutant: the doubling goes one round too far
NewCap_Twice(to_size) == 2 * GrowCap(MinCap, to_size)

\* mutant: the doubling starts at one slot
NewCap_NoMin(to_size) == GrowCap(1, to_size)

\* mutant: the block is sized to the request, not to a power of two
NewCap_Exact(to_size) == IF to_size < MinCap THEN MinCap ELSE to_size

\* _spmc_queue_reserve lines 239-241: the capacity of the new block
NewCap(to_size) == GrowCap(MinCap, to_size)

BlockCap(b) == IF b = NULL THEN 0 ELSE blocks[b].mask + 1

\* mutant: the loop compares the counters as unsigned numbers
RECURSIVE CopyLoop_Unsigned(_, _, _, _, _)
CopyLoop_Unsigned(new_data, new_mask, old_block, i, head) ==
    IF U64(i) < U64(head)
    THEN CopyLoop_Unsigned([new_data EXCEPT ![SlotIndex(new_mask, i)] =
                               blocks[old_block].data[_spmc_queue_slot(old_block, i)]],
                           new_mask, old_block, U64(i + 1), head)
    ELSE new_data

\* the copy loop of _spmc_queue_reserve: for(i = tail; (int64_t)(i - head) < 0; i++)
RECURSIVE CopyLoop(_, _, _, _, _)
CopyLoop(new_data, new_mask, old_block, i, head) ==
    IF I64(i - head) < 0
    THEN CopyLoop([new_data EXCEPT ![SlotIndex(new_mask, i)] =
                       blocks[old_block].data[_spmc_queue_slot(old_block, i)]],
                  new_mask, old_block, U64(i + 1), head)
    ELSE new_data

\* mutant: the loop starts one past the tail
CopyRange_SkipFirst(new_data, new_mask, old_block, tail, head) ==
    CopyLoop(new_data, new_mask, old_block, U64(tail + 1), head)

\* the data of the new block after the copy of [tail, head) from the old one
CopyRange(new_data, new_mask, old_block, tail, head) ==
    CopyLoop(new_data, new_mask, old_block, tail, head)

NoResult == [op |-> "none", state |-> "NONE", head |-> 0, tail |-> 0]

ProdIdle == [pc |-> "idle", op |-> "none", block |-> NULL, head |-> 0, tail |-> 0,
             item |-> NoItem, to_size |-> 0, new_block |-> NULL,
             result |-> NoResult,
             refreshed |-> FALSE, no_room |-> FALSE, alloc_failed |-> FALSE,
             value |-> 0, at_tail |-> 0]

ConsIdle == [pc |-> "idle", op |-> "none", tail |-> 0, head |-> 0, block |-> NULL,
             item |-> NoItem, result |-> NoResult, value |-> 0, t0 |-> 0,
             early |-> FALSE, slot_value |-> NoItem]

\* ------------------------------------------------------------ history
\* head = tail at this instant: the queue holds no item
QueueEmpty(h, t) == h = t

\* Every step records, for each consumer inside a call, whether the queue was
\* empty right after the step; the first step of a call starts the record afresh.
TrackEmpty ==
    empty_seen' = [c \in Consumers |->
        IF cons[c].pc = "idle"
        THEN IF cons'[c].pc # "idle" THEN QueueEmpty(push'.head, pop'.tail)
                                     ELSE empty_seen[c]
        ELSE empty_seen[c] \/ QueueEmpty(push'.head, pop'.tail)]

CountOps == {"count", "count_upper", "count_lower"}

\* Every step records, for each consumer inside a count, count_upper or
\* count_lower call, the number of items head - tail right after the step, from
\* the first read of the call to its last; the record stays until the consumer
\* starts its next call.
TrackCounts ==
    counts_seen' = [c \in Consumers |->
        LET now == I64(push'.head - pop'.tail)
        IN IF cons[c].pc = "idle"
           THEN IF cons'[c].pc = "idle" THEN counts_seen[c]
                ELSE IF cons'[c].op \in CountOps THEN {now} ELSE {}
           ELSE IF cons[c].op \in CountOps THEN counts_seen[c] \cup {now}
                ELSE counts_seen[c]]

Track == TrackEmpty /\ TrackCounts

\* ------------------------------------------------------------ producer
INT64_MAX == Modulus \div 2 - 1

\* push_st line 281 and 284: no block yet, or no free slot by this tail
PushNoRoom(block, head, tail) ==
    block = NULL \/ I64(head - tail) > I64(blocks[block].mask)

\* _spmc_queue_reserve line 235: the ceiling in force
MaxCapacity(max_capacity) == IF max_capacity >= 0 THEN max_capacity ELSE INT64_MAX

\* mutant: a request equal to the ceiling is refused too
ReserveGrows_Strict(old_cap, to_size, max_capacity) ==
    old_cap < to_size /\ to_size < max_capacity

\* mutant: a block of just the requested capacity is replaced too
ReserveGrows_Equal(old_cap, to_size, max_capacity) ==
    old_cap <= to_size /\ to_size <= max_capacity

\* _spmc_queue_reserve line 237: whether a new block is to be allocated
ReserveGrows(old_cap, to_size, max_capacity) ==
    old_cap < to_size /\ to_size <= max_capacity

\* mutant: the head is published two further
NextHead_Skip(head) == U64(head + 2)

\* push_st line 299: the head published after a push
NextHead(head) == U64(head + 1)

\* the item the producer pushes next: a tag no other push carries (the tests
\* push a running counter)
NextItem == Len(pushed) + 1

\* mutant: push_st goes on with the block it read at its start
ReserveReturn_OldBlock(call, out_block) ==
    IF call.op = "reserve"
    THEN [ProdIdle EXCEPT !.alloc_failed = call.alloc_failed]
    ELSE IF out_block = call.block
         THEN [ProdIdle EXCEPT
                 !.result = [op |-> "push_st", state |-> SPMC_QUEUE_FULL,
                             head |-> call.head, tail |-> call.tail],
                 !.refreshed = call.refreshed, !.no_room = call.no_room,
                 !.to_size = call.to_size, !.alloc_failed = call.alloc_failed]
         ELSE [call EXCEPT !.pc = "push_write", !.new_block = NULL,
                           !.block = IF call.block = NULL THEN out_block
                                     ELSE call.block]

\* mutant: push_st does not compare the block it got back with the one it had
ReserveReturn_NoFull(call, out_block) ==
    IF call.op = "reserve"
    THEN [ProdIdle EXCEPT !.alloc_failed = call.alloc_failed]
    ELSE IF out_block = NULL
         THEN [ProdIdle EXCEPT
                 !.result = [op |-> "push_st", state |-> SPMC_QUEUE_FULL,
                             head |-> call.head, tail |-> call.tail],
                 !.refreshed = call.refreshed, !.no_room = call.no_room,
                 !.to_size = call.to_size, !.alloc_failed = call.alloc_failed]
         ELSE [call EXCEPT !.pc = "push_write", !.block = out_block,
                           !.new_block = NULL]

\* return from _spmc_queue_reserve with out_block: to spmc_queue_reserve
\* (line 269), or to push_st (lines 285-293), which reports FULL when the block
\* it got back is the one it had.  call holds the caller's locals.
ReserveReturn(call, out_block) ==
    IF call.op = "reserve"
    THEN [ProdIdle EXCEPT !.alloc_failed = call.alloc_failed]
    ELSE IF out_block = call.block
         THEN [ProdIdle EXCEPT
                 !.result = [op |-> "push_st", state |-> SPMC_QUEUE_FULL,
                             head |-> call.head, tail |-> call.tail],
                 !.refreshed = call.refreshed, !.no_room = call.no_room,
                 !.to_size = call.to_size, !.alloc_failed = call.alloc_failed]
         ELSE [call EXCEPT !.pc = "push_write", !.block = out_block,
                           !.new_block = NULL]

\* _spmc_queue_reserve lines 231-247: decide, size and allocate the new block.
\* Only the producer's own fields are read, so this is part of the step that
\* calls it.
ReserveAlloc(call, to_size) ==
    LET old_block    == push.block
        old_cap      == BlockCap(old_block)
        max_capacity == MaxCapacity(push.max_capacity)
        new_cap      == NewCap(to_size)
    IN IF ReserveGrows(old_cap, to_size, max_capacity)
       THEN \E malloc_ok \in BOOLEAN :
              IF malloc_ok
              THEN /\ blocks' = Append(blocks,
                                   [next |-> old_block, mask |-> new_cap - 1,
                                    freed |-> FALSE,
                                    data |-> [i \in 0..(new_cap - 1) |-> Garbage]])
                   /\ prod' = [call EXCEPT !.pc = "reserve_copy",
                                           !.new_block = Len(blocks) + 1]
              ELSE /\ prod' = ReserveReturn([call EXCEPT !.alloc_failed = TRUE],
                                            old_block)
                   /\ UNCHANGED blocks
       ELSE /\ prod' = ReserveReturn(call, old_block)
            /\ UNCHANGED blocks

\* mutant: the head is kept as the estimate
EstimateTail_Head(head, tail) == head

\* push_st line 283: the tail just loaded becomes the cached estimate
EstimateTail(head, tail) == tail

\* push_st lines 277-293: read the block, the head and the cached tail; if
\* they show no room reload the consumers' tail and keep it as the estimate;
\* if that shows no room either, grow.  The reload of pop.tail is the one
\* access to shared memory of this step.
PushBegin ==
    /\ prod.pc = "idle"
    /\ Len(pushed) < MaxPush
    /\ LET block == push.block
           head  == push.head
           est   == push.estimate_tail
           call  == [ProdIdle EXCEPT !.op = "push", !.block = block,
                                     !.head = head, !.item = NextItem]
       IN IF ~PushNoRoom(block, head, est)
          THEN /\ prod' = [call EXCEPT !.pc = "push_write", !.tail = est]
               /\ UNCHANGED <<blocks, push>>
          ELSE LET tail == pop.tail
                   read == [call EXCEPT
                              !.tail = tail, !.refreshed = TRUE,
                              !.to_size = I64(head - tail + 1),
                              !.no_room = (push.block = NULL
                                           \/ Len(pushed) - Len(popped)
                                                = BlockCap(push.block))]
               IN /\ push' = [push EXCEPT !.estimate_tail = EstimateTail(head, tail)]
                  /\ IF ~PushNoRoom(block, head, tail)
                     THEN /\ prod' = [read EXCEPT !.pc = "push_write"]
                          /\ UNCHANGED blocks
                     ELSE ReserveAlloc(read, read.to_size)
    /\ UNCHANGED <<pop, cons, pushed, popped>>
    /\ Track

\* spmc_queue_reserve(queue, to_size) lines 267-270, up to the allocation
ReserveCall(to_size) ==
    /\ prod.pc = "idle"
    /\ ReserveAlloc([ProdIdle EXCEPT !.op = "reserve", !.to_size = to_size], to_size)
    /\ UNCHANGED <<pop, push, cons, pushed, popped>>
    /\ Track

\* spmc_queue_reserve, called by the producer between pushes
spmc_queue_reserve == \E to_size \in 0..MaxReserve : ReserveCall(to_size)

\* _spmc_queue_reserve lines 249-255: copy the live range [tail, head) of the
\* old block into the new one, by the tail and head loaded now
ReserveCopy ==
    /\ prod.pc = "reserve_copy"
    /\ LET old_block == push.block
           new_block == prod.new_block
           tail      == pop.tail
           head      == push.head
       IN blocks' = IF old_block # NULL
                    THEN [blocks EXCEPT ![new_block].data =
                            CopyRange(blocks[new_block].data, blocks[new_block].mask,
                                      old_block, tail, head)]
                    ELSE blocks
    /\ prod' = [prod EXCEPT !.pc = "reserve_publish"]
    /\ UNCHANGED <<pop, push, cons, pushed, popped>>
    /\ Track

\* mutant: the block that was replaced is freed
Retire_Free(bs, old_block) ==
    IF old_block = NULL THEN bs ELSE [bs EXCEPT ![old_block].freed = TRUE]

\* _spmc_queue_reserve lines 246 and 257-264: the block that was replaced stays
\* allocated, linked from the new one by next; nothing is freed
Retire(bs, old_block) == bs

\* mutant: the new block is installed for the producer and not published
ReservePublish_PushOnly ==
    /\ prod.pc = "reserve_publish"
    /\ push' = [push EXCEPT !.block = prod.new_block]
    /\ prod' = ReserveReturn(prod, prod.new_block)
    /\ UNCHANGED <<blocks, pop, cons, pushed, popped>>
    /\ Track

\* _spmc_queue_reserve lines 257-264: install the new block for the producer,
\* publish it to the consumers, return it
ReservePublish ==
    /\ prod.pc = "reserve_publish"
    /\ blocks' = Retire(blocks, push.block)
    /\ push' = [push EXCEPT !.block = prod.new_block]
    /\ pop' = [pop EXCEPT !.block = prod.new_block]
    /\ prod' = ReserveReturn(prod, prod.new_block)
    /\ UNCHANGED <<cons, pushed, popped>>
    /\ Track

\* push_st lines 296-297: copy the item into the slot of head
PushWrite ==
    /\ prod.pc = "push_write"
    /\ blocks' = [blocks EXCEPT ![prod.block].data[_spmc_queue_slot(prod.block, prod.head)]
                                   = prod.item]
    /\ prod' = [prod EXCEPT !.pc = "push_publish"]
    /\ UNCHANGED <<pop, push, cons, pushed, popped>>
    /\ Track

\* push_st lines 299-301: publish head + 1, return OK
PushPublish ==
    /\ prod.pc = "push_publish"
    /\ push' = [push EXCEPT !.head = NextHead(prod.head)]
    /\ pushed' = Append(pushed, prod.item)
    /\ prod' = [ProdIdle EXCEPT
                  !.result = [op |-> "push_st", state |-> SPMC_QUEUE_OK, head |-> prod.head,
                              tail |-> prod.tail],
                  !.refreshed = prod.refreshed, !.no_room = prod.no_room,
                  !.to_size = prod.to_size]
    /\ UNCHANGED <<blocks, pop, cons, popped>>
    /\ Track

\* ------------------------------------------------------------ consumers
PopOps == {"pop_st", "pop_weak", "pop"}

\* pop_st is for one consumer at a time (lines 73-77): it neither starts while
\* another pop is running nor runs beside one
MayStart(c, op) ==
    \A d \in Consumers \ {c} :
        cons[d].pc # "idle" /\ cons[d].op \in PopOps
            => (op # "pop_st" /\ cons[d].op # "pop_st")

\* mutant: head = tail is not taken as empty
PopStEmpty_Strict(head, tail) == I64(head - tail) < 0

\* pop_st lines 314 and 318: (int64_t)(head - tail) <= 0
PopStEmpty(head, tail) == I64(head - tail) <= 0

\* mutant: head = tail is not taken as empty
PopWeakEmpty_Strict(head, tail) == I64(tail - head) > 0

\* pop_weak lines 352 and 356: (int64_t)(tail - head) >= 0
PopWeakEmpty(head, tail) == I64(tail - head) >= 0

PopEmpty(op, head, tail) ==
    IF op = "pop_st" THEN PopStEmpty(head, tail) ELSE PopWeakEmpty(head, tail)

\* mutant: the exchange is done whatever the tail is
CasSucceeds_Always(current, expected) == TRUE

\* mutant: the outcome of the exchange is read the wrong way round
CasSucceeds_Inverted(current, expected) == current # expected

\* mutant: the exchange fails whatever the tail is
CasSucceeds_Never(current, expected) == FALSE

\* the compare-exchange of pop_weak line 367 succeeds when the tail still is
\* the value read at the start
CasSucceeds(current, expected) == current = expected

\* mutant: the tail is moved past two positions
NextTail_Double(tail) == U64(tail + 2)

\* mutant: the tail is stored back unchanged
NextTail_Stuck(tail) == tail

\* lines 336 and 367: the tail published by a pop that removed position tail
NextTail(tail) == U64(tail + 1)

\* mutant: the cached head is read once more
LoadHead_Estimate == pop.estimate_head

\* mutant: the consumer takes the head to be one past the published one
LoadHead_Ahead == U64(push.head + 1)

\* lines 315 and 353: the authoritative head, read from the producer's side
LoadHead == push.head

\* mutant: the slot after the one of tail is copied
SlotContent_Next(block, tail) ==
    IF block = NULL THEN Garbage
    ELSE blocks[block].data[_spmc_queue_slot(block, tail + 1)]

\* mutant: the copy is left out
SlotContent_Skipped(block, tail) == NoItem

\* the slot a pop copies from (lines 332 and 363); a NULL block has no slot
SlotContent(block, tail) ==
    IF block = NULL THEN Garbage
    ELSE blocks[block].data[_spmc_queue_slot(block, tail)]

\* mutant: pop_weak tries again after a lost race, as pop does
PopReturn_WeakRetries(c, out) ==
    IF cons[c].op \in {"pop", "pop_weak"} /\ out.state = SPMC_QUEUE_FAILED_RACE
    THEN [cons EXCEPT ![c].pc = "retry", ![c].result = out]
    ELSE [cons EXCEPT ![c] = [ConsIdle EXCEPT !.result = out, !.item = cons[c].item]]

\* mutant: pop hands a lost race to its caller
PopReturn_NoRetry(c, out) ==
    [cons EXCEPT ![c] = [ConsIdle EXCEPT !.result = out, !.item = cons[c].item]]

\* the return of a pop with result out: pop retries a lost race (lines 377-381)
PopReturn(c, out) ==
    IF cons[c].op = "pop" /\ out.state = SPMC_QUEUE_FAILED_RACE
    THEN [cons EXCEPT ![c].pc = "retry", ![c].result = out]
    ELSE [cons EXCEPT ![c] = [ConsIdle EXCEPT !.result = out, !.item = cons[c].item]]

\* pop_st line 308, pop_weak line 346: read the tail (first step of a call, or
\* of a retry of pop)
PopLoadTail(c, ops) ==
    /\ \/ /\ cons[c].pc = "idle"
          /\ \E op \in ops :
               /\ MayStart(c, op)
               /\ cons' = [cons EXCEPT ![c] = [ConsIdle EXCEPT
                              !.pc = "load_estimate", !.op = op, !.tail = pop.tail]]
       \/ /\ cons[c].pc = "retry"
          /\ cons' = [cons EXCEPT ![c].pc = "load_estimate", ![c].tail = pop.tail]
    /\ UNCHANGED <<blocks, pop, push, prod, pushed, popped>>
    /\ Track

\* lines 309-314, 347-352: read the cached head, start the result as EMPTY
PopLoadEstimate(c) ==
    /\ cons[c].pc = "load_estimate"
    /\ LET head == pop.estimate_head
       IN cons' = [cons EXCEPT
                     ![c].head = head,
                     ![c].result = [op |-> cons[c].op, state |-> SPMC_QUEUE_EMPTY,
                                    head |-> head, tail |-> cons[c].tail],
                     ![c].pc = IF PopEmpty(cons[c].op, head, cons[c].tail)
                               THEN "load_head" ELSE "load_block"]
    /\ UNCHANGED <<blocks, pop, push, prod, pushed, popped>>
    /\ Track

\* lines 315, 353: read the producer's head
PopLoadHead(c) ==
    /\ cons[c].pc = "load_head"
    /\ cons' = [cons EXCEPT ![c].head = LoadHead, ![c].pc = "store_estimate"]
    /\ UNCHANGED <<blocks, pop, push, prod, pushed, popped>>
    /\ Track

\* lines 316-319, 354-357: store it as the cached head; still empty: return EMPTY
PopStoreEstimate(c) ==
    /\ cons[c].pc = "store_estimate"
    /\ pop' = [pop EXCEPT !.estimate_head = cons[c].head]
    /\ LET out == [cons[c].result EXCEPT !.head = cons[c].head]
       IN cons' = IF PopEmpty(cons[c].op, cons[c].head, cons[c].tail)
                  THEN PopReturn(c, out)
                  ELSE [cons EXCEPT ![c].result = out, ![c].pc = "load_block"]
    /\ UNCHANGED <<blocks, push, prod, pushed, popped>>
    /\ Track

\* lines 329, 360: read the published block
PopLoadBlock(c) ==
    /\ cons[c].pc = "load_block"
    /\ cons' = [cons EXCEPT ![c].block = pop.block, ![c].pc = "copy"]
    /\ UNCHANGED <<blocks, pop, push, prod, pushed, popped>>
    /\ Track

\* lines 331-334, 362-365: copy the slot of tail into the caller's buffer
PopCopy(c) ==
    /\ cons[c].pc = "copy"
    /\ cons' = [cons EXCEPT ![c].item = SlotContent(cons[c].block, cons[c].tail),
                            ![c].pc = "commit"]
    /\ UNCHANGED <<blocks, pop, push, prod, pushed, popped>>
    /\ Track

\* The loads of the head (lines 315 and 353) and of its cached copy (lines 309
\* and 347) are memory_order_relaxed: they synchronise with no store of the
\* producer, and the seq_cst load of the block that follows orders what comes
\* after it, not what came before.  Nothing then orders the reads of lines
\* 329-333 and 360-364 after the loads of the head, and they race with the
\* memcpy of push_st line 297.  A build for a weakly ordered processor, or a
\* compiler moving the relaxed loads down, can give them the values of an
\* earlier moment: the block and the slot are read here, any time after the
\* load of the tail the slot address depends on.
PopEarlyLoads(c) ==
    /\ cons[c].pc \in {"load_estimate", "load_head"}
    /\ ~cons[c].early
    /\ cons' = [cons EXCEPT ![c].block = pop.block,
                            ![c].slot_value = SlotContent(pop.block, cons[c].tail),
                            ![c].early = TRUE]
    /\ UNCHANGED <<blocks, pop, push, prod, pushed, popped>>
    /\ Track

\* lines 329-334, 360-365 when the block and the slot were read early: the
\* value read then is what memcpy stores in the caller's buffer.  (PopLoadBlock
\* and PopCopy are the same lines when the reads are made in program order.)
PopEarlyUse(c) ==
    /\ cons[c].pc = "load_block"
    /\ cons[c].early
    /\ cons' = [cons EXCEPT ![c].item = cons[c].slot_value,
                            ![c].pc = "commit", ![c].early = FALSE]
    /\ UNCHANGED <<blocks, pop, push, prod, pushed, popped>>
    /\ Track

Popped(c) == [consumer |-> c, tail |-> cons[c].tail, item |-> cons[c].item]

\* pop_st lines 336-339: store tail + 1, return OK
PopStCommit(c) ==
    /\ cons[c].pc = "commit"
    /\ cons[c].op = "pop_st"
    /\ pop' = [pop EXCEPT !.tail = NextTail(cons[c].tail)]
    /\ popped' = Append(popped, Popped(c))
    /\ cons' = PopReturn(c, [cons[c].result EXCEPT !.state = SPMC_QUEUE_OK])
    /\ UNCHANGED <<blocks, push, prod, pushed>>
    /\ Track

\* pop_weak lines 367-372: compare-exchange the tail from the value read to
\* the next one; OK when it succeeds, FAILED_RACE when it does not
PopWeakCas(c) ==
    /\ cons[c].pc = "commit"
    /\ cons[c].op # "pop_st"
    /\ IF CasSucceeds(pop.tail, cons[c].tail)
       THEN /\ pop' = [pop EXCEPT !.tail = NextTail(cons[c].tail)]
            /\ popped' = Append(popped, Popped(c))
            /\ cons' = PopReturn(c, [cons[c].result EXCEPT !.state = SPMC_QUEUE_OK])
       ELSE /\ cons' = PopReturn(c, [cons[c].result EXCEPT
                                        !.state = SPMC_QUEUE_FAILED_RACE])
            /\ UNCHANGED <<pop, popped>>
    /\ UNCHANGED <<blocks, push, prod, pushed>>
    /\ Track

\* ------------------------------------------------------------ queries
\* spmc_queue_capacity lines 402-403
spmc_queue_capacity(c) ==
    /\ cons[c].pc = "idle"
    /\ cons' = [cons EXCEPT ![c] = [ConsIdle EXCEPT
                   !.result = [NoResult EXCEPT !.op = "capacity", !.state = "VALUE"],
                   !.value = BlockCap(pop.block)]]
    /\ UNCHANGED <<blocks, pop, push, prod, pushed, popped>>
    /\ Track

\* mutant: the operands of the difference are exchanged
CountValue_Swapped(head, tail) == I64(U64(I64(tail - head)))

\* spmc_queue_count lines 425-426: diff is unsigned, so diff >= 0 always
\* holds and the difference is returned as an isize
CountValue(head, tail) == I64(U64(I64(head - tail)))

\* mutant: the second read of the tail never passes for the first
CountStable_Never(tail, t0) == FALSE

\* mutant: the second read of the tail is not compared with the first
CountStable_Always(tail, t0) == TRUE

\* spmc_queue_count line 419: the tail is what it was before the head was read
CountStable(tail, t0) == tail = t0

\* spmc_queue_count line 410: the first read of the tail
CountLoadT0(c) ==
    /\ cons[c].pc = "idle"
    /\ cons' = [cons EXCEPT ![c] = [ConsIdle EXCEPT
                   !.pc = "count_head", !.op = "count", !.t0 = pop.tail]]
    /\ UNCHANGED <<blocks, pop, push, prod, pushed, popped>>
    /\ Track

\* spmc_queue_count line 412: read the head
CountLoadHead(c) ==
    /\ cons[c].pc = "count_head"
    /\ cons' = [cons EXCEPT ![c].head = push.head, ![c].pc = "count_tail"]
    /\ UNCHANGED <<blocks, pop, push, prod, pushed, popped>>
    /\ Track

\* spmc_queue_count lines 413-426: read the tail again; the same as before:
\* return head - tail; changed: go round again
CountLoadTail(c) ==
    /\ cons[c].pc = "count_tail"
    /\ LET tail == pop.tail
       IN cons' = IF CountStable(tail, cons[c].t0)
                  THEN [cons EXCEPT ![c] = [ConsIdle EXCEPT
                          !.result = [op |-> "count", state |-> "VALUE",
                                      head |-> cons[c].head, tail |-> tail],
                          !.value = CountValue(cons[c].head, tail)]]
                  ELSE [cons EXCEPT ![c].t0 = tail, ![c].tail = tail,
                                    ![c].pc = "count_head"]
    /\ UNCHANGED <<blocks, pop, push, prod, pushed, popped>>
    /\ Track

\* spmc_queue_count_upper line 432: read the tail
CountUpperLoadTail(c) ==
    /\ cons[c].pc = "idle"
    /\ cons' = [cons EXCEPT ![c] = [ConsIdle EXCEPT
                   !.pc = "upper_head", !.op = "count_upper", !.tail = pop.tail]]
    /\ UNCHANGED <<blocks, pop, push, prod, pushed, popped>>
    /\ Track

\* mutant: the consumers' cached head is read
UpperHead_Estimate == pop.estimate_head

\* spmc_queue_count_upper line 434: the head, read after the tail
UpperHead == push.head

\* spmc_queue_count_upper lines 434-436: read the head, return head - tail
CountUpperLoadHead(c) ==
    /\ cons[c].pc = "upper_head"
    /\ LET head == UpperHead
       IN cons' = [cons EXCEPT ![c] = [ConsIdle EXCEPT
                     !.result = [op |-> "count_upper", state |-> "VALUE",
                                 head |-> head, tail |-> cons[c].tail],
                     !.value = CountValue(head, cons[c].tail)]]
    /\ UNCHANGED <<blocks, pop, push, prod, pushed, popped>>
    /\ Track

\* spmc_queue_count_lower line 442: read the head
CountLowerLoadHead(c) ==
    /\ cons[c].pc = "idle"
    /\ cons' = [cons EXCEPT ![c] = [ConsIdle EXCEPT
                   !.pc = "lower_tail", !.op = "count_lower", !.head = push.head]]
    /\ UNCHANGED <<blocks, pop, push, prod, pushed, popped>>
    /\ Track

\* mutant: the producer's cached tail is read
LowerTail_Estimate == push.estimate_tail

\* spmc_queue_count_lower line 444: the tail, read after the head
LowerTail == pop.tail

\* spmc_queue_count_lower lines 444-446: read the tail, return head - tail
CountLowerLoadTail(c) ==
    /\ cons[c].pc = "lower_tail"
    /\ LET tail == LowerTail
       IN cons' = [cons EXCEPT ![c] = [ConsIdle EXCEPT
                     !.result = [op |-> "count_lower", state |-> "VALUE",
                                 head |-> cons[c].head, tail |-> tail],
                     !.value = CountValue(cons[c].head, tail)]]
    /\ UNCHANGED <<blocks, pop, push, prod, pushed, popped>>
    /\ Track

\* spmc_queue_count_upper called by the producer thread, line 432: read the
\* tail; at_tail keeps the number of items the queue held at that instant
ProdCountUpperLoadTail ==
    /\ prod.pc = "idle"
    /\ prod' = [ProdIdle EXCEPT !.pc = "upper_head", !.op = "count_upper",
                                !.tail = pop.tail,
                                !.at_tail = I64(push.head - pop.tail)]
    /\ UNCHANGED <<blocks, pop, push, cons, pushed, popped>>
    /\ Track

\* lines 434-436: read the head, return head - tail
ProdCountUpperLoadHead ==
    /\ prod.pc = "upper_head"
    /\ LET head == push.head
       IN prod' = [ProdIdle EXCEPT
                     !.result = [op |-> "count_upper", state |-> "VALUE",
                                 head |-> head, tail |-> prod.tail],
                     !.value = CountValue(head, prod.tail),
                     !.at_tail = prod.at_tail]
    /\ UNCHANGED <<blocks, pop, push, cons, pushed, popped>>
    /\ Track

\* spmc_queue_count_lower called by the producer thread, line 442: read the head
ProdCountLowerLoadHead ==
    /\ prod.pc = "idle"
    /\ prod' = [ProdIdle EXCEPT !.pc = "lower_tail", !.op = "count_lower",
                                !.head = push.head]
    /\ UNCHANGED <<blocks, pop, push, cons, pushed, popped>>
    /\ Track

\* lines 444-446: read the tail, return head - tail; at_tail keeps the number
\* of items the queue holds at this instant
ProdCountLowerLoadTail ==
    /\ prod.pc = "lower_tail"
    /\ LET tail == pop.tail
       IN prod' = [ProdIdle EXCEPT
                     !.result = [op |-> "count_lower", state |-> "VALUE",
                                 head |-> prod.head, tail |-> tail],
                     !.value = CountValue(prod.head, tail),
                     !.at_tail = I64(push.head - pop.tail)]
    /\ UNCHANGED <<blocks, pop, push, cons, pushed, popped>>
    /\ Track

\* ---------------------------------------------------------------- init
\* spmc_queue_init(queue, item_size, max_capacity) on a zeroed SPMC_Queue:
\* deinit zeroes every field, then the ceiling is stored; the threads are idle
\* and nothing was pushed or popped.
spmc_queue_init(max_capacity) ==
    /\ blocks = << >>
    /\ pop = [block |-> NULL, tail |-> 0, estimate_head |-> 0]
    /\ push = [block |-> NULL, estimate_tail |-> 0, head |-> 0,
               max_capacity |-> max_capacity]
    /\ prod = ProdIdle
    /\ cons = [c \in Consumers |-> ConsIdle]
    /\ pushed = << >>
    /\ popped = << >>
    /\ empty_seen = [c \in Consumers |-> FALSE]
    /\ counts_seen = [c \in Consumers |-> {}]

\* the tests' queue: spmc_queue_init(&q, sizeof(isize), -1), no ceiling
Init == spmc_queue_init(0 - 1)

\* a queue with a ceiling of 0..MaxCeiling slots, or none
InitCeiling == \E max_capacity \in (0 - 1)..MaxCeiling : spmc_queue_init(max_capacity)

\* ------------------------------------------------------------ teardown
\* mutant: the current block is freed and the blocks it replaced are not
FreeChain_First(bs, curr) ==
    IF curr = NULL THEN bs ELSE [bs EXCEPT ![curr].freed = TRUE]

\* the loop of spmc_queue_deinit lines 200-204: free curr, go on with its next
RECURSIVE FreeChain(_, _)
FreeChain(bs, curr) ==
    IF curr = NULL THEN bs
    ELSE FreeChain([bs EXCEPT ![curr].freed = TRUE], bs[curr].next)

\* the blocks that loop passes to free, in the order it visits them
RECURSIVE ChainSeq(_, _)
ChainSeq(bs, curr) ==
    IF curr = NULL THEN << >> ELSE <<curr>> \o ChainSeq(bs, bs[curr].next)

\* no block was freed yet
NotTornDown == \A b \in DOMAIN blocks : ~blocks[b].freed

\* every thread is between two calls.  deinit and init take no part in the
\* synchronisation of the queue; the tests call them before the threads start
\* and after they were joined.
Quiescent == prod.pc = "idle" /\ \A c \in Consumers : cons[c].pc = "idle"

\* spmc_queue_deinit lines 198-208, called by the user (max_capacity is left
\* 0 by the memset) or from line 213 of spmc_queue_init (lines 214-217 then
\* store max_capacity): free every block of the chain and zero the queue.
\* The items still in the queue are gone with it.
Teardown(max_capacity) ==
    /\ Quiescent
    /\ blocks' = FreeChain(blocks, push.block)
    /\ pop' = [block |-> NULL, tail |-> 0, estimate_head |-> 0]
    /\ push' = [block |-> NULL, estimate_tail |-> 0, head |-> 0,
                max_capacity |-> max_capacity]
    /\ prod' = ProdIdle
    /\ cons' = [c \in Consumers |-> ConsIdle]
    /\ pushed' = << >>
    /\ popped' = << >>
    /\ Track

\* spmc_queue_deinit(queue)
spmc_queue_deinit == Teardown(0)

\* spmc_queue_init(queue, item_size, -1) on a queue that was in use; a run
\* does so while it has freed no block
InitAgain == NotTornDown /\ Teardown(0 - 1)

\* ------------------------------------------------------------ specification
Producer ==
    \/ PushBegin
    \/ spmc_queue_reserve
    \/ ReserveCopy
    \/ ReservePublish
    \/ PushWrite
    \/ PushPublish

\* the steps all pops share, for the calls named by ops
PopCommon(c, ops) ==
    \/ PopLoadTail(c, ops)
    \/ PopLoadEstimate(c)
    \/ PopLoadHead(c)
    \/ PopStoreEstimate(c)
    \/ PopLoadBlock(c)
    \/ PopCopy(c)

Query(c) ==
    \/ spmc_queue_capacity(c)
    \/ CountLoadT0(c)
    \/ CountLoadHead(c)
    \/ CountLoadTail(c)

\* one producer, and the consumers calling pop
Next ==
    \/ Producer
    \/ \E c \in Consumers : PopCommon(c, {"pop"})
    \/ \E c \in Consumers : PopWeakCas(c)

Spec == Init /\ [][Next]_vars

\* one producer, and the consumers calling pop_weak
NextWeak ==
    \/ Producer
    \/ \E c \in Consumers : PopCommon(c, {"pop_weak"})
    \/ \E c \in Consumers : PopWeakCas(c)

SpecWeak == Init /\ [][NextWeak]_vars

\* one producer and a single consumer calling pop_st
NextSt ==
    \/ Producer
    \/ PopCommon(1, {"pop_st"})
    \/ PopStCommit(1)

SpecSt == Init /\ [][NextSt]_vars

\* one producer, and the consumers calling any of the pops
NextAll ==
    \/ Producer
    \/ \E c \in Consumers : PopCommon(c, PopOps)
    \/ \E c \in Consumers : PopStCommit(c)
    \/ \E c \in Consumers : PopWeakCas(c)

SpecAll == Init /\ [][NextAll]_vars

\* one producer, one consumer popping, one thread querying
NextQuery ==
    \/ Producer
    \/ PopCommon(1, PopOps)
    \/ PopStCommit(1)
    \/ PopWeakCas(1)
    \/ Query(NumConsumers)

SpecQuery == Init /\ [][NextQuery]_vars

\* a queue with a ceiling: one producer and one consumer
NextCeiling ==
    \/ Producer
    \/ PopCommon(1, PopOps)
    \/ PopStCommit(1)
    \/ PopWeakCas(1)

SpecCeiling == InitCeiling /\ [][NextCeiling]_vars

\* count, count_upper and count_lower called by thread c
Counts(c) ==
    \/ CountLoadT0(c)
    \/ CountLoadHead(c)
    \/ CountLoadTail(c)
    \/ CountUpperLoadTail(c)
    \/ CountUpperLoadHead(c)
    \/ CountLowerLoadHead(c)
    \/ CountLowerLoadTail(c)

\* one producer, one consumer calling pop, one thread counting
NextCount ==
    \/ Producer
    \/ PopCommon(1, {"pop"})
    \/ PopWeakCas(1)
    \/ Counts(NumConsumers)

SpecCount == Init /\ [][NextCount]_vars

\* count_upper and count_lower called by the producer thread between pushes
ProdCounts ==
    \/ ProdCountUpperLoadTail
    \/ ProdCountUpperLoadHead
    \/ ProdCountLowerLoadHead
    \/ ProdCountLowerLoadTail

\* one producer pushing and counting, and a consumer calling any of the pops
NextProdCount ==
    \/ Producer
    \/ ProdCounts
    \/ PopCommon(1, PopOps)
    \/ PopStCommit(1)
    \/ PopWeakCas(1)

SpecProdCount == Init /\ [][NextProdCount]_vars

\* one producer, one consumer popping, one thread asking for the capacity and
\* the count, and the teardown of the queue
NextTeardown ==
    \/ Producer
    \/ PopCommon(1, PopOps)
    \/ PopStCommit(1)
    \/ PopWeakCas(1)
    \/ Query(NumConsumers)
    \/ spmc_queue_deinit

SpecTeardown == Init /\ [][NextTeardown]_vars

\* the calls of a consumer thread that have no retry loop
NoRetryPops == {"pop_st", "pop_weak"}

PopStep(c) ==
    \/ PopCommon(c, NoRetryPops)
    \/ PopStCommit(c)
    \/ PopWeakCas(c)

QueryStep(c) ==
    \/ spmc_queue_capacity(c)
    \/ CountUpperLoadTail(c)
    \/ CountUpperLoadHead(c)
    \/ CountLowerLoadHead(c)
    \/ CountLowerLoadTail(c)

ConsumerStep(c) == PopStep(c) \/ QueryStep(c)

\* one producer, one consumer calling pop_st or pop_weak, and one calling
\* pop_weak, capacity, count_upper or count_lower
NextSteps ==
    \/ Producer
    \/ PopStep(1)
    \/ PopCommon(NumConsumers, {"pop_weak"})
    \/ PopWeakCas(NumConsumers)
    \/ QueryStep(NumConsumers)

SpecSteps == Init /\ [][NextSteps]_vars

\* test_spmc_sequential with reserve_to below the smallest block: one thread
\* makes every call, so a call starts only when no other is running.  The
\* queue is reserved to SmallReserve slots first, then takes SmallReserve + 1
\* pushes; pops, count and capacity are asked for at any point (the test asks
\* before the reserve, after it, after the pushes and after the pops).
SmallReserve == MinCap \div 2

SeqReserve ==
    \/ Quiescent /\ push.block = NULL /\ ReserveCall(SmallReserve)
    \/ ReserveCopy
    \/ ReservePublish

SeqPush ==
    \/ Quiescent /\ push.block # NULL /\ Len(pushed) <= SmallReserve /\ PushBegin
    \/ PushWrite
    \/ PushPublish

SeqPop ==
    \/ Quiescent /\ PopLoadTail(1, {"pop_st"})
    \/ PopLoadEstimate(1)
    \/ PopLoadHead(1)
    \/ PopStoreEstimate(1)
    \/ PopLoadBlock(1)
    \/ PopCopy(1)
    \/ PopStCommit(1)

SeqQuery ==
    \/ Quiescent /\ spmc_queue_capacity(NumConsumers)
    \/ Quiescent /\ CountLoadT0(NumConsumers)
    \/ CountLoadHead(NumConsumers)
    \/ CountLoadTail(NumConsumers)

NextSequential == SeqReserve \/ SeqPush \/ SeqPop \/ SeqQuery

SpecSequential == Init /\ [][NextSequential]_vars

\* one producer and one consumer calling pop_st or pop_weak, whose reads of the
\* block and of the slot are not ordered after its reads of the head
NextRelaxed ==
    \/ Producer
    \/ PopStep(1)
    \/ PopEarlyLoads(1)
    \/ PopEarlyUse(1)

SpecRelaxed == Init /\ [][NextRelaxed]_vars

\* one producer, one consumer calling pop_st, pop, capacity and the three
\* counts, and one consumer calling pop_weak
NextCounters ==
    \/ Producer
    \/ PopCommon(1, {"pop_st", "pop"})
    \/ PopStCommit(1)
    \/ PopWeakCas(1)
    \/ spmc_queue_capacity(1)
    \/ Counts(1)
    \/ PopCommon(NumConsumers, {"pop_weak"})
    \/ PopWeakCas(NumConsumers)

SpecCounters == Init /\ [][NextCounters]_vars

\* a consumer inside a call of pop takes its next step: a thread that is
\* running is scheduled again
PopRuns(c) ==
    /\ cons[c].pc # "idle"
    /\ PopCommon(c, {"pop"}) \/ PopWeakCas(c)

\* the producer pushing, the consumers calling pop
NextPop ==
    \/ PushBegin
    \/ ReserveCopy
    \/ ReservePublish
    \/ PushWrite
    \/ PushPublish
    \/ \E c \in Consumers : PopCommon(c, {"pop"})
    \/ \E c \in Consumers : PopWeakCas(c)

\* every consumer that is inside a call is scheduled fairly; the producer and
\* the start of a call are under no obligation
SpecPopFair ==
    Init /\ [][NextPop]_vars /\ \A c \in Consumers : WF_vars(PopRuns(c))

\* a consumer inside a call of count takes its next step
CountRuns(c) ==
    /\ cons[c].pc # "idle"
    /\ CountLoadHead(c) \/ CountLoadTail(c)

\* the producer pushing, a consumer calling pop and a consumer calling count
NextCountFair ==
    \/ PushBegin
    \/ ReserveCopy
    \/ ReservePublish
    \/ PushWrite
    \/ PushPublish
    \/ PopCommon(1, {"pop"})
    \/ PopWeakCas(1)
    \/ CountLoadT0(NumConsumers)
    \/ CountLoadHead(NumConsumers)
    \/ CountLoadTail(NumConsumers)

\* the consumer that is inside a count is scheduled fairly; the producer, the
\* popping consumer and the start of a call are under no obligation
SpecCountFair ==
    Init /\ [][NextCountFair]_vars /\ WF_vars(CountRuns(NumConsumers))

\* the queue near the wrap of its counters.  WrapStart items were pushed, each
\* popped by pop before the next push: the one block of MinCap slots holds
\* popped items, head, tail and the consumers' estimate are WrapStart, and the
\* producer refreshed its estimate when head - estimate_tail last reached
\* MinCap.  The histories start here.
WrapStart == Modulus - 2
Stale     == 0 - 3                  \* content of a slot whose item was popped
WrapPos(n) == U64(WrapStart + n)    \* the counter after n more pushes or pops

InitWrap ==
    /\ blocks = << [next |-> NULL, mask |-> MinCap - 1, freed |-> FALSE,
                    data |-> [i \in 0..(MinCap - 1) |-> Stale]] >>
    /\ pop = [block |-> 1, tail |-> WrapStart, estimate_head |-> WrapStart]
    /\ push = [block |-> 1, head |-> WrapStart, max_capacity |-> 0 - 1,
               estimate_tail |-> ((WrapStart - 1) \div MinCap) * MinCap]
    /\ prod = ProdIdle
    /\ cons = [c \in Consumers |-> ConsIdle]
    /\ pushed = << >>
    /\ popped = << >>
    /\ empty_seen = [c \in Consumers |-> FALSE]
    /\ counts_seen = [c \in Consumers |-> {}]

\* the producer, a consumer calling pop, and a consumer calling pop_weak and
\* count
NextWrap ==
    \/ Producer
    \/ PopCommon(1, {"pop"})
    \/ PopWeakCas(1)
    \/ PopCommon(NumConsumers, {"pop_weak"})
    \/ PopWeakCas(NumConsumers)
    \/ CountLoadT0(NumConsumers)
    \/ CountLoadHead(NumConsumers)
    \/ CountLoadTail(NumConsumers)

SpecWrap == InitWrap /\ [][NextWrap]_vars

\* the life of a queue, one thread making every call: reserves, pushes, pops,
\* capacity and count in any order, deinit at any point, and init on the used
\* queue
LifeCalls ==
    \/ Quiescent /\ spmc_queue_reserve
    \/ Quiescent /\ PushBegin
    \/ Quiescent /\ PopLoadTail(1, {"pop_st", "pop"})
    \/ Quiescent /\ spmc_queue_capacity(NumConsumers)
    \/ Quiescent /\ CountLoadT0(NumConsumers)

LifeSteps ==
    \/ ReserveCopy
    \/ ReservePublish
    \/ PushWrite
    \/ PushPublish
    \/ PopLoadEstimate(1)
    \/ PopLoadHead(1)
    \/ PopStoreEstimate(1)
    \/ PopLoadBlock(1)
    \/ PopCopy(1)
    \/ PopStCommit(1)
    \/ PopWeakCas(1)
    \/ CountLoadHead(NumConsumers)
    \/ CountLoadTail(NumConsumers)

NextLifecycle == LifeCalls \/ LifeSteps \/ spmc_queue_deinit \/ InitAgain

SpecLifecycle == Init /\ [][NextLifecycle]_vars

\* ================================================================ claims
Live       == Len(pushed) - Len(popped)     \* items pushed and not yet popped
Capacity   == BlockCap(pop.block)           \* what spmc_queue_capacity returns now
IsPow2(n)  == \E k \in 0..CounterBits : n = 2^k
PoppedBy(c) == SelectSeq(popped, LAMBDA e : e.consumer = c)
Returned(c, ops) == cons[c].pc = "idle" /\ cons[c].result.op \in ops

\* C1: FIFO order. With one producer calling push_st and a single consumer
\* calling pop_st, concurrently or not, the items the successful pop_st calls
\* returned are, in order, a prefix of the items pushed, across block growth
\* and ring wraparound.
C1_FifoPrefix ==
    /\ Len(popped) <= Len(pushed)
    /\ \A i \in 1..Len(popped) : popped[i].item = pushed[i]

\* C1 witness: three items popped in order by pop_st, the second and third
\* after the ring wrapped and the queue grew
C1_Witness ==
    /\ Len(popped) = 3
    /\ Len(blocks) >= 2
    /\ blocks[1].data[0] = pushed[3]
    /\ cons[1].result.op = "pop_st"
    /\ cons[1].result.state = SPMC_QUEUE_OK
    /\ cons[1].item = pushed[3]

\* C2: no loss and no duplication under contention. No pop returns an item
\* that was not pushed, no item is returned twice, and once the producer has
\* finished and the consumers have drained the queue (head = tail, nobody
\* inside a call) every pushed item has been returned by exactly one pop.
C2_NoLossNoDup ==
    /\ \A i \in 1..Len(popped) : \E j \in 1..Len(pushed) : popped[i].item = pushed[j]
    /\ \A i, j \in 1..Len(popped) : popped[i].item = popped[j].item => i = j
    /\ (/\ prod.pc = "idle"
        /\ \A c \in Consumers : cons[c].pc = "idle"
        /\ push.head = pop.tail)
       => \A j \in 1..Len(pushed) :
              Cardinality({i \in 1..Len(popped) : popped[i].item = pushed[j]}) = 1

\* C2 witness: all pushes done, the queue grown and drained, both consumers
\* having taken items
C2_Witness ==
    /\ prod.pc = "idle"
    /\ \A c \in Consumers : cons[c].pc = "idle"
    /\ push.head = pop.tail
    /\ Len(pushed) = MaxPush
    /\ Len(popped) = MaxPush
    /\ Len(blocks) >= 2
    /\ \E i, j \in 1..Len(popped) : popped[i].consumer # popped[j].consumer

\* C3: per-consumer monotonicity. The items one consumer obtains from its own
\* successive successful pops have strictly increasing push positions (the
\* tags the producer gave them, and the tail values the pops removed).
C3_ConsumerMonotone ==
    \A c \in Consumers :
        LET mine == PoppedBy(c)
        IN \A i \in 1..Len(mine) : \A j \in 1..Len(mine) :
               i < j => mine[i].item < mine[j].item /\ mine[i].tail < mine[j].tail

\* C3 witness: a consumer took two items and another consumer one in between
C3_Witness ==
    /\ Len(popped) = 3
    /\ popped[1].consumer = popped[3].consumer
    /\ popped[1].consumer # popped[2].consumer

\* C4: growth preserves the live range. The block published to the consumers
\* holds every item of [tail, head) at slot i mod capacity, in every state and
\* so in the state in which a growth makes a new block visible, also when
\* consumers popped while the producer copied.
C4_LiveRangePublished ==
    pop.block # NULL =>
        \A i \in Len(popped)..(Len(pushed) - 1) :
            blocks[pop.block].data[i % Capacity] = pushed[i + 1]

\* C4 witness: a second block was just published while two items were live,
\* one item having been popped before (the live range wrapped in the old block)
C4_Witness ==
    /\ Len(blocks) = 2
    /\ pop.block = 2
    /\ Len(pushed) = 3
    /\ Len(popped) = 1
    /\ blocks[1].data[0] = pushed[3]

\* C5: the signed difference published head - published tail is never
\* negative and is the number of successful pushes minus the number of
\* successful pops.
C5_HeadMinusTail ==
    /\ I64(push.head - pop.tail) >= 0
    /\ I64(push.head - pop.tail) = Len(pushed) - Len(popped)

\* C5 witness: three pushes and two pops leave a difference of one
C5_Witness ==
    /\ Len(pushed) = 3
    /\ Len(popped) = 2
    /\ I64(push.head - pop.tail) = 1

\* C6: capacity() is 0 while no block is installed, otherwise a power of two
\* that is at least the number of live items; it never decreases.
C6_Capacity ==
    [][/\ (blocks = << >> => Capacity = 0)
       /\ (pop.block = NULL => Capacity = 0)
       /\ (pop.block # NULL => IsPow2(Capacity) /\ Capacity >= Live)
       /\ (pop'.block # NULL => IsPow2(Capacity') /\ Capacity' >= Live')
       /\ Capacity' >= Capacity]_vars

\* C6 witness: capacity() returned the capacity of a second, larger block
C6_Witness ==
    /\ Len(blocks) = 2
    /\ pop.block = 2
    /\ Capacity = 2 * MinCap
    /\ Returned(NumConsumers, {"capacity"})
    /\ cons[NumConsumers].value = Capacity

\* C7: while nothing has been pushed, be it on the fresh queue with no block
\* or after a reserve, every pop returns EMPTY and count() returns 0; while no
\* block is installed capacity() returns 0.
C7_FreshQueue ==
    /\ pushed = << >> =>
          /\ Returned(1, PopOps) => cons[1].result.state = SPMC_QUEUE_EMPTY
          /\ Returned(NumConsumers, {"count"}) => cons[NumConsumers].value = 0
    /\ pop.block = NULL =>
          (Returned(NumConsumers, {"capacity"}) => cons[NumConsumers].value = 0)

\* C7 witness: after a reserve and no push, a pop returned EMPTY and count() 0
C7_Witness ==
    /\ pushed = << >>
    /\ pop.block # NULL
    /\ Returned(1, PopOps)
    /\ cons[1].result.state = SPMC_QUEUE_EMPTY
    /\ Returned(NumConsumers, {"count"})
    /\ cons[NumConsumers].value = 0

\* C8: a pop_st, pop_weak or pop call returns EMPTY only if head = tail held
\* at some instant between its first step and its return.
C8_EmptyWasEmpty ==
    \A c \in Consumers :
        Returned(c, PopOps) /\ cons[c].result.state = SPMC_QUEUE_EMPTY
            => empty_seen[c]

\* C8 witness: a pop found the cached head stale, reloaded it and returned
\* EMPTY after the other consumer had taken the one item there was
C8_Witness ==
    \E c \in Consumers :
        /\ Returned(c, PopOps)
        /\ cons[c].result.state = SPMC_QUEUE_EMPTY
        /\ cons[c].result.tail = 1
        /\ cons[c].result.head = 1
        /\ pop.estimate_head = 1
        /\ Len(popped) = 1
        /\ popped[1].consumer # c

\* C9: on a queue with max_capacity = K >= 1, after K successful pushes and no
\* pop, the (K+1)-th push_st returns FULL.
C9_FullAfterK ==
    (/\ push.max_capacity >= 1
     /\ popped = << >>
     /\ prod.pc = "idle"
     /\ prod.result.op = "push_st"
     /\ prod.result.head = push.max_capacity)
    => prod.result.state = SPMC_QUEUE_FULL

\* C10: push_st returns FULL exactly when its authoritative read of the tail
\* showed no free slot (no block, or head - tail equal to the capacity) and
\* the growth gave no new block, because head - tail + 1 exceeded the ceiling
\* or because the allocation failed; without ceiling and without allocation
\* failure it returns OK.
C10_FullIff ==
    (prod.pc = "idle" /\ prod.result.op = "push_st") =>
        /\ prod.result.state = SPMC_QUEUE_FULL
             <=> /\ prod.refreshed
                 /\ prod.no_room
                 /\ \/ (push.max_capacity >= 0 /\ prod.to_size > push.max_capacity)
                    \/ prod.alloc_failed
        /\ (push.max_capacity < 0 /\ ~prod.alloc_failed)
             => prod.result.state = SPMC_QUEUE_OK

\* C10 witness: a push was refused by the ceiling alone, the block being full
C10_Witness ==
    /\ prod.pc = "idle"
    /\ prod.result.op = "push_st"
    /\ prod.result.state = SPMC_QUEUE_FULL
    /\ ~prod.alloc_failed
    /\ push.block # NULL
    /\ Len(pushed) = BlockCap(push.block)
    /\ popped = << >>

\* C11: on a queue with a ceiling max_capacity = K >= 1, capacity() never
\* exceeds K, whether push_st or reserve asked for the growth.
C11_CapacityWithinCeiling ==
    push.max_capacity >= 1 => Capacity <= push.max_capacity

\* C12: max_capacity = 0 means no ceiling: on a queue initialised with it a
\* push_st whose allocation did not fail returns OK.
C12_ZeroIsNoCeiling ==
    (/\ push.max_capacity = 0
     /\ prod.pc = "idle"
     /\ prod.result.op = "push_st"
     /\ ~prod.alloc_failed)
    => prod.result.state = SPMC_QUEUE_OK

\* C13: a push_st call that returns FULL leaves the queue as it found it: the
\* published head and tail, the producer's and the published block, every
\* slot of every block, and the cached estimates, the producer's cached tail
\* included, have the values they had before the call.  (The call is one step:
\* its only access to shared memory is the reload of the tail.)
C13_FullMutatesNothing ==
    [][(PushBegin /\ prod'.pc = "idle" /\ prod'.result.state = SPMC_QUEUE_FULL)
          => /\ push' = push
             /\ pop' = pop
             /\ blocks' = blocks
             /\ pushed' = pushed]_vars

\* C13 witness: a push returned FULL after it had reloaded the tail, the block
\* being full and a consumer having cached the head of the full queue
C13_Witness ==
    /\ prod.pc = "idle"
    /\ prod.result.op = "push_st"
    /\ prod.result.state = SPMC_QUEUE_FULL
    /\ prod.refreshed
    /\ push.block # NULL
    /\ prod.result.head - prod.result.tail = BlockCap(push.block)
    /\ push.estimate_tail = prod.result.tail
    /\ pop.estimate_head = push.head

\* C14: when the allocation inside a growth fails, push_st returns FULL and
\* reserve returns without effect; no block is allocated, linked or published,
\* the old block stays the producer's and the published one; and from then on
\* the published block holds every live item at its slot and the pops return
\* the items in push order.
C14_AllocFailure ==
    /\ [][((PushBegin \/ spmc_queue_reserve) /\ prod'.alloc_failed)
            => /\ prod'.pc = "idle"
               /\ blocks' = blocks
               /\ push'.block = push.block
               /\ pop'.block = pop.block
               /\ prod'.result.op = "push_st"
                     => prod'.result.state = SPMC_QUEUE_FULL
               /\ prod'.result.op # "push_st"
                     => push' = push /\ pop' = pop]_vars
    /\ [](prod.alloc_failed =>
            /\ push.block = pop.block
            /\ pop.block # NULL =>
                 \A i \in Len(popped)..(Len(pushed) - 1) :
                     blocks[pop.block].data[i % Capacity] = pushed[i + 1]
            /\ \A i \in 1..Len(popped) : popped[i].item = pushed[i])

\* C14 witness: a push was refused because the allocation failed while the
\* block was full, and an item was popped after that, the one next in order
C14_Witness ==
    /\ prod.pc = "idle"
    /\ prod.alloc_failed
    /\ prod.result.op = "push_st"
    /\ prod.result.state = SPMC_QUEUE_FULL
    /\ push.block # NULL
    /\ Len(popped) > prod.result.tail
    /\ popped[Len(popped)].item = pushed[Len(popped)]

\* C15: the outcome sets are closed. pop returns OK or EMPTY and never
\* FAILED_RACE, with any number of consumers racing; pop_st returns OK or
\* EMPTY; pop_weak returns OK, EMPTY or FAILED_RACE and is the only call that
\* returns FAILED_RACE; push_st returns OK or FULL.
C15_OutcomeSets ==
    /\ \A c \in Consumers :
         /\ Returned(c, {"pop", "pop_st"})
              => cons[c].result.state \in {SPMC_QUEUE_OK, SPMC_QUEUE_EMPTY}
         /\ Returned(c, {"pop_weak"})
              => cons[c].result.state \in
                    {SPMC_QUEUE_OK, SPMC_QUEUE_EMPTY, SPMC_QUEUE_FAILED_RACE}
    /\ (prod.pc = "idle" /\ prod.result.op = "push_st")
         => prod.result.state \in {SPMC_QUEUE_OK, SPMC_QUEUE_FULL}

\* C15 witness: a pop lost its compare-exchange to the other consumer and is
\* about to try again, while a push_st was refused
C15_Witness ==
    /\ \E c \in Consumers :
         /\ cons[c].op = "pop"
         /\ cons[c].pc = "retry"
         /\ cons[c].result.state = SPMC_QUEUE_FAILED_RACE
    /\ prod.result.state = SPMC_QUEUE_FULL

\* C16: pop_weak returns FAILED_RACE exactly when, at its compare-exchange, the
\* published tail is no longer the value t it read at its start; it then
\* leaves the tail as it is, and otherwise moves it from t to t + 1; no two
\* successful pops removed the same position t.
C16_FailedRace ==
    /\ [][\A c \in Consumers :
            (cons[c].pc = "commit" /\ cons[c].op = "pop_weak" /\ cons'[c].pc = "idle")
            => /\ cons'[c].result.state = SPMC_QUEUE_FAILED_RACE
                    <=> pop.tail # cons[c].tail
               /\ cons'[c].result.state = SPMC_QUEUE_FAILED_RACE
                    => pop'.tail = pop.tail
               /\ cons'[c].result.state # SPMC_QUEUE_FAILED_RACE
                    => /\ cons'[c].result.state = SPMC_QUEUE_OK
                       /\ pop.tail = cons[c].tail
                       /\ pop'.tail = U64(cons[c].tail + 1)]_vars
    /\ [](\A i, j \in 1..Len(popped) : popped[i].tail = popped[j].tail => i = j)

\* C16 witness: two consumers read the same tail; one took the position, the
\* other returned FAILED_RACE and the tail is one past the value both read
C16_Witness ==
    \E c, d \in Consumers :
        /\ c # d
        /\ Returned(c, {"pop_weak"})
        /\ cons[c].result.state = SPMC_QUEUE_FAILED_RACE
        /\ Returned(d, {"pop_weak"})
        /\ cons[d].result.state = SPMC_QUEUE_OK
        /\ cons[d].result.tail = cons[c].result.tail
        /\ pop.tail = U64(cons[c].result.tail + 1)

\* C17: a pop_weak call that returns FAILED_RACE has not written the caller's
\* buffer (the copy is made after the compare-exchange has succeeded).
C17_NoWriteOnFailedRace ==
    \A c \in Consumers :
        (Returned(c, {"pop_weak"}) /\ cons[c].result.state = SPMC_QUEUE_FAILED_RACE)
            => cons[c].item = NoItem

\* C17 as amended: pop_weak copies the slot of t into the caller's buffer
\* before the compare-exchange, so a call that returns FAILED_RACE has written
\* the buffer, as has one that returns OK (with the item pushed at position
\* t); only a call that returns EMPTY has left the buffer alone.
C17_CopyBeforeCas ==
    \A c \in Consumers :
        Returned(c, {"pop_weak"}) =>
            /\ cons[c].result.state = SPMC_QUEUE_FAILED_RACE => cons[c].item # NoItem
            /\ cons[c].result.state = SPMC_QUEUE_OK
                 => cons[c].item = pushed[cons[c].result.tail + 1]
            /\ cons[c].result.state = SPMC_QUEUE_EMPTY => cons[c].item = NoItem

\* C17 witness: a pop_weak returned FAILED_RACE with the item in its buffer
\* that the other consumer's pop_weak returned
C17_Witness ==
    \E c, d \in Consumers :
        /\ c # d
        /\ Returned(c, {"pop_weak"})
        /\ cons[c].result.state = SPMC_QUEUE_FAILED_RACE
        /\ Returned(d, {"pop_weak"})
        /\ cons[d].result.state = SPMC_QUEUE_OK
        /\ cons[c].item = cons[d].item
        /\ cons[c].item = pushed[1]

\* C18: count() is a snapshot. The value it returns is the number of items
\* head - tail the queue held at one instant between the first and the last
\* read of the call, whatever pushes and pops run beside it; when the producer
\* and the consumers are at rest and the counters are the ones the call read,
\* it is the number of items pushed and not popped.
C18_CountSnapshot ==
    Returned(NumConsumers, {"count"}) =>
        /\ cons[NumConsumers].value \in counts_seen[NumConsumers]
        /\ (/\ prod.pc = "idle"
            /\ cons[1].pc = "idle"
            /\ cons[NumConsumers].result.head = push.head
            /\ cons[NumConsumers].result.tail = pop.tail)
           => cons[NumConsumers].value = Live

\* C18 witness: count() went round its loop again because a pop moved the
\* tail, saw the queue at several sizes and returned one of them
C18_Witness ==
    /\ Returned(NumConsumers, {"count"})
    /\ Cardinality(counts_seen[NumConsumers]) >= 3
    /\ cons[NumConsumers].result.tail >= 1
    /\ cons[NumConsumers].value = 1

\* C19: count_upper() never undercounts. The value it returns is at least the
\* number of items head - tail at every instant from its read of the tail to
\* its read of the head.
C19_UpperNeverUnder ==
    Returned(NumConsumers, {"count_upper"}) =>
        \A n \in counts_seen[NumConsumers] : cons[NumConsumers].value >= n

\* C19 witness: pushes and a pop ran between the two reads of count_upper,
\* which returned more than the queue held at the end
C19_Witness ==
    /\ Returned(NumConsumers, {"count_upper"})
    /\ Cardinality(counts_seen[NumConsumers]) >= 2
    /\ cons[NumConsumers].result.tail < pop.tail
    /\ cons[NumConsumers].value > Live
    /\ cons[NumConsumers].value \notin counts_seen[NumConsumers]

\* C20: count_lower() never overcounts. The value it returns is at most the
\* number of items head - tail at every instant from its read of the head to
\* its read of the tail.
C20_LowerNeverOver ==
    Returned(NumConsumers, {"count_lower"}) =>
        \A n \in counts_seen[NumConsumers] : cons[NumConsumers].value <= n

\* C20 witness: a push and pops ran between the two reads of count_lower,
\* which returned less than the queue ever held in between
C20_Witness ==
    /\ Returned(NumConsumers, {"count_lower"})
    /\ Cardinality(counts_seen[NumConsumers]) >= 2
    /\ cons[NumConsumers].result.head < push.head
    /\ cons[NumConsumers].value \notin counts_seen[NumConsumers]

\* C21: count_upper() and count_lower() called on the producer thread are
\* exact: each returns head - tail as the counters stood at the instant of its
\* read of the tail, whatever the consumers do meanwhile.
C21_ProducerCountsExact ==
    (prod.pc = "idle" /\ prod.result.op \in {"count_upper", "count_lower"})
        => prod.value = prod.at_tail

\* C21 witness: the producer's count_lower read the head, a consumer popped,
\* and the call returned the number of items left at its read of the tail
C21_Witness ==
    /\ prod.pc = "idle"
    /\ prod.result.op = "count_lower"
    /\ prod.result.head = 2
    /\ prod.result.tail = 1
    /\ prod.value = 1
    /\ \E c \in Consumers : cons[c].pc = "idle" /\ cons[c].result.state = SPMC_QUEUE_OK

\* C22: reserve ensures the capacity and preserves the items. On a queue with
\* no ceiling, every return of spmc_queue_reserve(n) whose allocation did not
\* fail leaves capacity() >= n, for every n; no step of reserve changes the
\* head, the tail or the number of items; and at its return the published
\* block holds every item pushed and not yet popped in the slot of its
\* position (the returning step writes no block), so the pops that follow
\* return the items they would have returned without the reserve, in the order
\* of the pushes.
ReserveStep == prod.op = "reserve" \/ prod'.op = "reserve" \/ spmc_queue_reserve

ReserveReturns(n) ==
    \/ ReserveCall(n) /\ prod'.pc = "idle"
    \/ prod.op = "reserve" /\ prod.to_size = n /\ ReservePublish

C22_ReservePreserves ==
    /\ [][\A n \in 0..MaxReserve :
            (ReserveReturns(n) /\ push.max_capacity < 0 /\ ~prod'.alloc_failed)
                => /\ BlockCap(pop'.block) >= n
                   /\ \A i \in (Len(popped) + 1)..Len(pushed) :
                         SlotContent(pop'.block, i - 1) = pushed[i]]_vars
    /\ [][(ReserveStep /\ prod' # prod)
            => /\ push'.head = push.head /\ pop'.tail = pop.tail
               /\ pushed' = pushed /\ popped' = popped]_vars
    /\ [](\A i \in 1..Len(popped) : popped[i].item = pushed[i])

\* C22 witness: reserve(3) replaced the two-slot block holding two items by a
\* four-slot block, and pop_st copied the first item from the new block
C22_Witness ==
    /\ Len(blocks) = 2 /\ BlockCap(1) = MinCap /\ BlockCap(2) = 2 * MinCap
    /\ pop.block = 2 /\ prod.pc = "idle"
    /\ Len(pushed) = 2 /\ Len(popped) = 0
    /\ cons[1].pc = "commit" /\ cons[1].op = "pop_st" /\ cons[1].block = 2
    /\ cons[1].item = pushed[1]

\* C23: reserve is idempotent. Settled(n) says the capacity already is >= n or
\* n is above the ceiling. A call reserve(n) made while Settled(n) holds
\* allocates no block and changes no field of the queue; and every return of
\* reserve(n) leaves Settled(n) true, so that a reserve(n) called right after
\* it is such a call and is a no-op.
Settled(n, block) == BlockCap(block) >= n \/ n > MaxCapacity(push.max_capacity)

ReserveNoOp ==
    \A n \in 0..MaxReserve :
        (ReserveCall(n) /\ Settled(n, push.block))
            => prod'.pc = "idle" /\ UNCHANGED <<blocks, pop, push, pushed, popped>>

Frees == \E b \in DOMAIN blocks : ~blocks[b].freed /\ blocks'[b].freed

C24_FreedOnlyByDeinit ==
    /\ [][Frees => spmc_queue_deinit]_vars
    /\ [](\A c \in Consumers :
            (cons[c].pc = "copy" /\ cons[c].block # NULL)
                => ~blocks[cons[c].block].freed)

\* C24 witness: a consumer is about to copy from the first block after the
\* producer replaced it by a second one
C24_Witness ==
    /\ cons[1].pc = "copy" /\ cons[1].block = 1
    /\ pop.block = 2 /\ blocks[2].next = 1
    /\ ~blocks[1].freed

\* C25: push_st (with the growth it triggers), pop_st, pop_weak, capacity,
\* count_upper and count_lower are non-blocking. StepsLeft bounds the steps a
\* thread has left in its call by its position alone (the copy loop of a
\* growth is one step: it runs over the head - tail items read at its start).
\* Every step of a thread inside one of these calls lowers StepsLeft, whatever
\* the other threads did in between, so the call returns within StepsLeft of
\* its own steps; in particular EMPTY, FULL and FAILED_RACE are returned, not
\* retried.  And a thread inside a call always has its next step enabled: no
\* step waits for another thread.
StepsLeft(pc) ==
    CASE pc = "idle"            -> 0
      [] pc = "commit"          -> 1
      [] pc = "copy"            -> 2
      [] pc = "load_block"      -> 3
      [] pc = "store_estimate"  -> 4
      [] pc = "load_head"       -> 5
      [] pc = "load_estimate"   -> 6
      [] pc = "retry"           -> 7
      [] pc = "upper_head"      -> 1
      [] pc = "lower_tail"      -> 1
      [] pc = "push_publish"    -> 1
      [] pc = "push_write"      -> 2
      [] pc = "reserve_publish" -> 3
      [] pc = "reserve_copy"    -> 4

NoRetryOps == {"pop_st", "pop_weak", "count_upper", "count_lower"}

ProducerBounded ==
    (prod.op = "push" /\ prod' # prod) => StepsLeft(prod'.pc) < StepsLeft(prod.pc)

ConsumerBounded(c) ==
    (cons[c].op \in NoRetryOps /\ cons'[c] # cons[c])
        => StepsLeft(cons'[c].pc) < StepsLeft(cons[c].pc)

NeverWaits ==
    /\ prod.op = "push" => ENABLED Producer
    /\ \A c \in Consumers : cons[c].op \in NoRetryOps => ENABLED ConsumerStep(c)

C25_NonBlocking ==
    /\ [][ProducerBounded]_vars
    /\ [][\A c \in Consumers : ConsumerBounded(c)]_vars
    /\ []NeverWaits

\* C25 witness: with the producer inside a push_st that grows the queue, a
\* pop_weak returned FAILED_RACE after the other consumer took the item
C25_Witness ==
    /\ prod.op = "push" /\ prod.pc = "reserve_publish"
    /\ Returned(NumConsumers, {"pop_weak"})
    /\ cons[NumConsumers].result.state = SPMC_QUEUE_FAILED_RACE
    /\ Returned(1, {"pop_weak"}) /\ cons[1].result.state = SPMC_QUEUE_OK

\* C26: results carry the counters. The result of a successful push_st holds
\* in head the position given to the item: the push that returned last stored
\* pushed[head + 1] and was the (head + 1)-th push. The result of a successful
\* pop, pop_st or pop_weak holds in tail the position of the item removed, and
\* the item handed out with tail = k is the one stored by the push with
\* head = k, for the call that just returned and for every pop made so far.
PushReturnedOK ==
    prod.pc = "idle" /\ prod.result.op = "push_st" /\ prod.result.state = SPMC_QUEUE_OK

PopReturnedOK(c) == Returned(c, PopOps) /\ cons[c].result.state = SPMC_QUEUE_OK

C26_ResultsCarryCounters ==
    /\ PushReturnedOK => prod.result.head = U64(Len(pushed) - 1)
    /\ \A c \in Consumers :
          PopReturnedOK(c)
              => LET mine == PoppedBy(c)
                     last == mine[Len(mine)]
                 IN /\ Len(mine) > 0
                    /\ last.tail = cons[c].result.tail
                    /\ last.item = cons[c].item
                    /\ cons[c].result.tail < Len(pushed)
                    /\ cons[c].item = pushed[cons[c].result.tail + 1]
    /\ \A i \in 1..Len(popped) :
          popped[i].tail < Len(pushed) /\ popped[i].item = pushed[popped[i].tail + 1]

\* C26 witness: the third push returned with head = 2, one consumer's pop_st
\* returned with tail = 0 and the first item, then the other's pop_weak with
\* tail = 1 and the second item
C26_Witness ==
    /\ PushReturnedOK /\ prod.result.head = 2
    /\ \E c, d \in Consumers :
          /\ PopReturnedOK(c) /\ cons[c].result.op = "pop_st"
          /\ cons[c].result.tail = 0 /\ cons[c].item = pushed[1]
          /\ PopReturnedOK(d) /\ cons[d].result.op = "pop_weak"
          /\ cons[d].result.tail = 1 /\ cons[d].item = pushed[2]

\* C27: the sequential scenario, with the sizes scaled: the smallest block has
\* MinCap slots for the 64 of the source and the queue is reserved to
\* SmallReserve < MinCap slots for the 8 of the scenario.  What every
\* scenario has in common: count() returns the number of items pushed and not
\* popped, pop_st hands out the items in the order of the pushes, the k-th pop
\* the k-th item, and pop_st returns EMPTY exactly when every item was popped.
CountReturns ==
    /\ cons[NumConsumers].pc = "count_tail"
    /\ cons'[NumConsumers].pc = "idle"

PopStReturns == cons[1].pc # "idle" /\ cons'[1].pc = "idle"

ScenarioResults ==
    /\ [][CountReturns => cons'[NumConsumers].value = Len(pushed) - Len(popped)]_vars
    /\ [][PopStReturns => /\ cons'[1].result.state
                                \in {SPMC_QUEUE_OK, SPMC_QUEUE_EMPTY}
                          /\ cons'[1].result.state = SPMC_QUEUE_EMPTY
                                <=> Len(popped) = Len(pushed)]_vars
    /\ [](\A k \in 1..Len(popped) :
            popped[k].tail = k - 1 /\ popped[k].item = pushed[k])

\* C27 as stated: the push after the SmallReserve-th one (the ninth) grows the
\* queue to twice SmallReserve slots or more
C27_NinthPushGrows ==
    /\ ScenarioResults
    /\ [](Len(pushed) = SmallReserve + 1
            => Len(blocks) = 2 /\ Capacity >= 2 * SmallReserve)

\* C27 as the code has it: the reserve allocated the smallest block, which holds
\* SmallReserve + 1 items, and no push of the scenario grows the queue; the
\* capacity stays MinCap, which is twice SmallReserve or more
C27_NoGrowthInScenario ==
    /\ ScenarioResults
    /\ [](/\ Len(blocks) <= 1
          /\ push.block # NULL => Capacity = MinCap /\ Capacity >= 2 * SmallReserve)

\* C27 witness: after the reserve and SmallReserve + 1 pushes count() returned
\* SmallReserve + 1, as many calls of pop_st returned the items in order and
\* the next one returned EMPTY, all in the first block
C27_Witness ==
    /\ Len(blocks) = 1 /\ Capacity = MinCap
    /\ Len(pushed) = SmallReserve + 1 /\ Len(popped) = SmallReserve + 1
    /\ \A k \in 1..Len(popped) : popped[k].item = k /\ pushed[k] = k
    /\ Returned(NumConsumers, {"count"})
    /\ cons[NumConsumers].value = SmallReserve + 1
    /\ cons[NumConsumers].result.tail = 0
    /\ Returned(1, {"pop_st"}) /\ cons[1].result.state = SPMC_QUEUE_EMPTY

\* C28: a consumer that observed a published head > t, by the head itself or
\* by its cached copy, observes the t-th item in its slot: with a single
\* consumer, once it has copied the slot of its tail t from the current block,
\* what it holds is the item of the push that returned head = t.
C28_HeadSeenItemSeen ==
    \A c \in Consumers :
        (cons[c].pc = "commit" /\ cons[c].block # NULL /\ cons[c].block = pop.block)
            => /\ cons[c].tail < Len(pushed)
               /\ cons[c].item = pushed[cons[c].tail + 1]

\* C29: a consumer never pairs an up-to-date head and tail with a stale block:
\* with a single consumer, the block pointer it holds after its emptiness check
\* passed for its tail t is not NULL, and the slot of t in that block holds the
\* t-th item.
C29_BlockNotStale ==
    \A c \in Consumers :
        cons[c].pc \in {"copy", "commit"}
            => /\ cons[c].block # NULL
               /\ cons[c].tail < Len(pushed)
               /\ SlotContent(cons[c].block, cons[c].tail) = pushed[cons[c].tail + 1]

\* C30: the published head and tail never decrease. A step that changes the
\* head is the publishing step of a push_st that returns OK, and it adds 1; a
\* step that changes the tail is the last step of a pop, pop_st or pop_weak
\* that takes an item, and it adds 1; every successful push and pop does so.
\* No other step changes either: not the steps of a call that returns FULL,
\* EMPTY or FAILED_RACE, nor those of reserve, capacity, count, count_upper and
\* count_lower.
PushSucceeds ==
    /\ prod.op = "push" /\ prod.pc = "push_publish"
    /\ prod'.pc = "idle" /\ prod'.result.state = SPMC_QUEUE_OK

PopSucceeds(c) ==
    /\ cons[c].op \in PopOps /\ cons[c].pc = "commit"
    /\ cons'[c].pc = "idle" /\ cons'[c].result.state = SPMC_QUEUE_OK

C30_CountersMonotone ==
    /\ [][push'.head # push.head <=> PushSucceeds]_vars
    /\ [][PushSucceeds => push'.head = U64(push.head + 1)]_vars
    /\ [][pop'.tail # pop.tail <=> \E c \in Consumers : PopSucceeds(c)]_vars
    /\ [][(\E c \in Consumers : PopSucceeds(c)) => pop'.tail = U64(pop.tail + 1)]_vars
    /\ [][/\ I64(push'.head - push.head) >= 0
           /\ I64(pop'.tail - pop.tail) >= 0]_vars

\* C30 witness: two pushes and one pop succeeded, and since then a pop_weak
\* returned FAILED_RACE, a push_st FULL and a count its value
C30_Witness ==
    /\ push.head = 2 /\ pop.tail = 1
    /\ prod.pc = "idle" /\ prod.result.state = SPMC_QUEUE_FULL
    /\ Returned(NumConsumers, {"pop_weak"})
    /\ cons[NumConsumers].result.state = SPMC_QUEUE_FAILED_RACE
    /\ Returned(1, {"count"}) /\ cons[1].value = 1

\* C31: the size of a new block. A step that allocates a block for the target
\* size n (the to_size of reserve, head - tail + 1 for push_st) gives it the
\* smallest power of two that is >= n and >= MinCap (the 64 of the source)
\* and at least twice the capacity of the block it replaces; so in every
\* state each block's next link leads to a block of at most half its size.
Allocates == Len(blocks') = Len(blocks) + 1

SmallestPow2(cap, n) ==
    /\ IsPow2(cap)
    /\ cap >= n /\ cap >= MinCap
    /\ cap = MinCap \/ cap \div 2 < n

C31_GrowthSize ==
    /\ [][Allocates =>
            LET new_block == Len(blocks')
                cap       == blocks'[new_block].mask + 1
            IN /\ SmallestPow2(cap, prod'.to_size)
               /\ blocks'[new_block].next = push.block
               /\ cap >= 2 * BlockCap(push.block)]_vars
    /\ [](\A b \in DOMAIN blocks :
            /\ IsPow2(BlockCap(b)) /\ BlockCap(b) >= MinCap
            /\ blocks[b].next # NULL
                  => /\ blocks[b].next < b
                     /\ 2 * BlockCap(blocks[b].next) <= BlockCap(b))

\* C31 witness: push_st found the two-slot block full with a third item to
\* push and has allocated a four-slot block linked to it
C31_Witness ==
    /\ prod.op = "push" /\ prod.pc = "reserve_copy" /\ prod.to_size = MinCap + 1
    /\ Len(blocks) = 2 /\ blocks[2].next = 1
    /\ BlockCap(1) = MinCap /\ BlockCap(2) = 2 * MinCap

\* C32: a retired block is not written again. The blocks behind the producer's
\* current block in the chain (those allocated before it) keep their slots in
\* every step: push_st writes the block that is current when it writes, and
\* the copy of a growth writes the block not yet installed.  So the slot a
\* consumer copies through a block pointer that has been replaced holds what
\* it held when the block was replaced.
IsRetired(b) == push.block # NULL /\ b < push.block

C32_RetiredNeverWritten ==
    /\ [][\A b \in DOMAIN blocks :
            IsRetired(b) => blocks'[b].data = blocks[b].data]_vars
    /\ [][\A b \in DOMAIN blocks :
            blocks'[b].data # blocks[b].data
                => \/ prod.pc = "push_write" /\ b = prod.block /\ b = push.block
                   \/ prod.pc = "reserve_copy" /\ b = prod.new_block
                          /\ b # push.block /\ b # pop.block]_vars

\* C32 witness: a consumer is about to copy from the first block, which was
\* replaced, and the third item has been written into the second block only
C32_Witness ==
    /\ Len(blocks) = 2 /\ push.block = 2 /\ IsRetired(1)
    /\ cons[1].pc = "copy" /\ cons[1].block = 1 /\ cons[1].tail = 0
    /\ Len(pushed) = 3
    /\ SlotContent(2, 2) = pushed[3] /\ SlotContent(1, 2) = pushed[1]
    /\ SlotContent(1, 0) = pushed[1]

\* ------------------------------------------------------------------ C33
\* the blocks malloc gave out and free has not taken back
LiveBlocks == {b \in DOMAIN blocks : ~blocks[b].freed}

SeqRange(q) == {q[i] : i \in DOMAIN q}

\* the state the memset of deinit leaves
Zeroed ==
    /\ push = [block |-> NULL, estimate_tail |-> 0, head |-> 0, max_capacity |-> 0]
    /\ pop = [block |-> NULL, tail |-> 0, estimate_head |-> 0]

TearsDown == spmc_queue_deinit \/ InitAgain

\* the loop passes every live block to free once and no block that was freed
\* before, so that no block is live afterwards
FreesChainOnce ==
    LET chain == ChainSeq(blocks, push.block)
    IN /\ Cardinality(SeqRange(chain)) = Len(chain)
       /\ SeqRange(chain) = LiveBlocks
       /\ \A b \in DOMAIN blocks : blocks'[b].freed
       /\ DOMAIN blocks' = DOMAIN blocks

\* C33: deinit frees every block allocated since the last init exactly once
\* (the current block and the chain of the blocks it replaced, no leak and no
\* double free), with or without items in the queue, and zeroes the queue, so
\* that afterwards capacity and count return 0 and a pop returns EMPTY; init
\* on a used queue does the same teardown and then stores its configuration.
C33_DeinitFreesAll ==
    /\ [][TearsDown => FreesChainOnce]_vars
    /\ [][spmc_queue_deinit => Zeroed']_vars
    /\ [][InitAgain => push' = [block |-> NULL, estimate_tail |-> 0, head |-> 0,
                                max_capacity |-> 0 - 1]
                       /\ pop' = [block |-> NULL, tail |-> 0, estimate_head |-> 0]]_vars
    /\ [](Zeroed =>
            /\ \A c \in Consumers :
                  Returned(c, {"capacity", "count"}) => cons[c].value = 0
            /\ \A c \in Consumers :
                  Returned(c, PopOps) => cons[c].result.state = SPMC_QUEUE_EMPTY)

\* a queue that grew once was torn down (both blocks freed), and then count
\* returned 0 and a pop EMPTY
C33_Witness ==
    /\ Zeroed
    /\ Len(blocks) = 2 /\ blocks[1].freed /\ blocks[2].freed
    /\ blocks[2].next = 1
    /\ Returned(NumConsumers, {"count"}) /\ cons[NumConsumers].value = 0
    /\ Returned(1, {"pop"}) /\ cons[1].result.state = SPMC_QUEUE_EMPTY

\* ------------------------------------------------------------------ C34
\* the counters are the numbers of pushes and of pops modulo 2^CounterBits
\* and their signed difference is the number of items in the queue
WrapCounters ==
    /\ push.head = WrapPos(Len(pushed))
    /\ pop.tail = WrapPos(Len(popped))
    /\ I64(push.head - pop.tail) = Live
    /\ Live >= 0

\* the pops return the items pushed, each once, in the order of the pushes
WrapFifo ==
    /\ Len(popped) <= Len(pushed)
    /\ \A i \in 1..Len(popped) :
          popped[i].item = pushed[i] /\ popped[i].tail = WrapPos(i - 1)
    /\ (Quiescent /\ push.head = pop.tail) => Len(popped) = Len(pushed)

\* emptiness check: EMPTY is returned only if the queue was empty
WrapEmptiness ==
    \A c \in Consumers :
        Returned(c, PopOps) /\ cons[c].result.state = SPMC_QUEUE_EMPTY
            => empty_seen[c]

\* fullness check: the queue grows for a push only when its block was full,
\* and a push is refused only when the allocation failed
WrapFullness ==
    /\ (prod.op = "push" /\ prod.pc \in {"reserve_copy", "reserve_publish"})
          => prod.no_room
    /\ (prod.pc = "idle" /\ prod.result.op = "push_st"
           /\ prod.result.state = SPMC_QUEUE_FULL)
          => prod.no_room /\ prod.alloc_failed

\* copy loop and slot index: the published block holds the item of every
\* position of [tail, head) at the slot position mod capacity
WrapLiveRange ==
    pop.block # NULL =>
        \A i \in Len(popped)..(Len(pushed) - 1) :
            blocks[pop.block].data[WrapPos(i) % Capacity] = pushed[i + 1]

\* count returns a number of items the queue held during the call
WrapCount ==
    Returned(NumConsumers, {"count"}) =>
        /\ cons[NumConsumers].value \in counts_seen[NumConsumers]
        /\ cons[NumConsumers].value \in 0..Len(pushed)

\* C34: counter wraparound is harmless.  With head and tail counters of
\* CounterBits bits, the emptiness check, the fullness check, the copy loop
\* of a growth, count and the slot index position mod capacity stay right
\* when the counters pass 2^CounterBits, so the pops return the items in the
\* order pushed, none lost and none twice, head - tail being below
\* 2^(CounterBits - 1).
C34_WrapHarmless ==
    /\ WrapCounters
    /\ WrapFifo
    /\ WrapEmptiness
    /\ WrapFullness
    /\ WrapLiveRange
    /\ WrapCount

\* three items pushed at positions 2^CounterBits - 2, 2^CounterBits - 1 and 0,
\* the queue having grown with the counters on both sides of the wrap, all
\* three popped in order, and a count call seeing the queue empty at head 1
C34_Witness ==
    /\ Len(pushed) = 3 /\ Len(popped) = 3
    /\ push.head = 1 /\ pop.tail = 1
    /\ Len(blocks) = 2
    /\ blocks[2].data[WrapPos(0) % BlockCap(2)] = pushed[1]
    /\ blocks[2].data[0] = pushed[3]
    /\ popped[3].tail = 0 /\ popped[3].item = pushed[3]
    /\ Returned(NumConsumers, {"count"})
    /\ cons[NumConsumers].result.head = 1 /\ cons[NumConsumers].value = 0

\* ------------------------------------------------------------------ C35
\* C35: the cached estimates are conservative.  In every state the producer's
\* cached tail is at most the published tail and the consumers' shared cached
\* head is at most the published head (as signed differences), also when
\* consumers race to refresh the cached head and an older value overwrites a
\* newer one.
C35_EstimatesConservative ==
    /\ I64(pop.tail - push.estimate_tail) >= 0
    /\ I64(push.head - pop.estimate_head) >= 0

\* the cached head went back from 2 to 1: one consumer read the head when it
\* was 1, the other got 2 as the head and went on, then the first stored its 1
C35_Witness ==
    \E c, d \in Consumers :
        /\ c # d
        /\ pop.estimate_head = 1 /\ push.head >= 2
        /\ cons[c].pc = "load_block" /\ cons[c].op = "pop_weak" /\ cons[c].head = 1
        /\ cons[d].pc = "load_block" /\ cons[d].op = "pop_weak" /\ cons[d].head = 2

\* ------------------------------------------------------------------ C36
\* the pop_weak inside a pop of c returns FAILED_RACE and pop goes round again
PopRetries(c) ==
    cons[c].op = "pop" /\ cons[c].pc = "commit" /\ cons'[c].pc = "retry"

\* another consumer's pop removed the position c read as the tail
TakenByOther(c) ==
    \E i \in 1..Len(popped) :
        popped[i].consumer # c /\ popped[i].tail = cons[c].tail

RetryHasCause == \A c \in Consumers : PopRetries(c) => TakenByOther(c)

\* C36: pop is lock-free and terminates.  Every retry inside pop (a pop_weak
\* that returned FAILED_RACE) follows a successful pop of another consumer
\* since the call read the tail, so that, the producer pushing finitely many
\* items, every call of pop returns (OK or EMPTY) when the calling thread is
\* scheduled fairly.
C36_PopTerminates ==
    /\ [][RetryHasCause]_vars
    /\ \A c \in Consumers :
          (cons[c].pc # "idle") ~>
              (/\ Returned(c, {"pop"})
               /\ cons[c].result.state \in {SPMC_QUEUE_OK, SPMC_QUEUE_EMPTY})

\* a pop returned EMPTY after a retry: its first attempt copied the one item,
\* lost the exchange to the other consumer, and the second found nothing
C36_Witness ==
    \E c \in Consumers :
        /\ Returned(c, {"pop"})
        /\ cons[c].result.state = SPMC_QUEUE_EMPTY
        /\ cons[c].result.tail = 1
        /\ Len(popped) = 1 /\ popped[1].consumer # c /\ popped[1].tail = 0
        /\ cons[c].item = pushed[1]

\* ------------------------------------------------------------------ C37
\* count goes round its loop again
CountRetries(c) ==
    cons[c].op = "count" /\ cons[c].pc = "count_tail" /\ cons'[c].pc = "count_head"

\* a pop removed the position count last read as the tail
TailMoved(c) ==
    /\ pop.tail # cons[c].t0
    /\ \E i \in 1..Len(popped) : popped[i].tail = cons[c].t0

RetryOnlyOnPop == \A c \in Consumers : CountRetries(c) => TailMoved(c)

\* whatever was pushed, count does not go round again while nothing was popped
PushesNeverRetry ==
    \A c \in Consumers : (CountRetries(c) /\ pushed # << >>) => popped # << >>

\* C37: count() goes round again only when the tail changed between two
\* consecutive reads of it: pushes alone never make it retry, and, the
\* consumers popping finitely many items, every call of count returns when
\* the calling thread is scheduled fairly.
C37_CountTerminates ==
    /\ [][RetryOnlyOnPop]_vars
    /\ [][PushesNeverRetry]_vars
    /\ (cons[NumConsumers].pc # "idle") ~> Returned(NumConsumers, {"count"})

\* count read the tail as 0, a pop moved it to 1 while two items had been
\* pushed, and count went round again with the tail it read last
C37_Witness ==
    /\ cons[NumConsumers].op = "count" /\ cons[NumConsumers].pc = "count_head"
    /\ cons[NumConsumers].t0 = 1 /\ cons[NumConsumers].tail = 1
    /\ cons[NumConsumers].head = 2
    /\ Len(popped) = 1 /\ popped[1].tail = 0

\* ------------------------------------------------------------------ C38
\* C38: the count queries never return a negative number: count, count_upper
\* and count_lower each return a value >= 0, whatever pushes and pops run
\* between their reads of head and tail.
C38_CountsNonNegative ==
    \A c \in Consumers : Returned(c, CountOps) => cons[c].value >= 0

\* ------------------------------------------------------------------ C39
ReturnedEmpty(c, ops) ==
    Returned(c, ops) /\ cons[c].result.state = SPMC_QUEUE_EMPTY

HoldsSpeculative(c) ==
    /\ \/ cons[c].item \in 1..(Len(pushed) + 1)
       \/ cons[c].item = Garbage
    /\ \E i \in 1..Len(popped) :
          popped[i].consumer # c /\ popped[i].tail < cons[c].result.tail

====
